---------------------------- MODULE Spec2Model ----------------------------
(***************************************************************************)
(* Model of the sizing engine of SolarizationTool (src/core.py): the       *)
(* Inputs record, the estimator functions and the orchestrator plan.       *)
(*                                                                         *)
(* Every quantity of core.py is a Python float.  A float is modelled as a  *)
(* binary floating-point number <<m, e>> (value m * 2^e) whose significand *)
(* has MantissaBits bits, with round-to-nearest-even after every           *)
(* operation, as IEEE-754 does with 53 bits.  Each formula of core.py is   *)
(* translated operation by operation, in the order Python evaluates it.    *)
(* A ZeroDivisionError is an outcome of a call, not a value.               *)
(***************************************************************************)
EXTENDS Integers, Sequences, FiniteSets, TLC

VARIABLES i, ret

vars == <<i, ret>>

---------------------------------------------------------------------------
(* Bounds of the model *)

\* bits of the significand of a modelled float (binary64 has 53)
MantissaBits == 11

\* N_day and N_night range over 0..MaxResidents
MaxResidents == 10

\* W_month_liters ranges over 0, 15000, ..., 15000 * MaxWaterSteps
MaxWaterSteps == 4

\* growth_pct ranges over 0, 25, ..., 25 * MaxGrowthSteps
MaxGrowthSteps == 6

---------------------------------------------------------------------------
(* Python float arithmetic *)

Abs(n) == IF n < 0 THEN -n ELSE n

Sign(n) == IF n < 0 THEN -1 ELSE IF n = 0 THEN 0 ELSE 1

RECURSIVE BitLen(_)
BitLen(n) == IF n = 0 THEN 0 ELSE 1 + BitLen(n \div 2)

Zero == <<0, 0>>

\* the float nearest to M * 2^E, ties to the even significand
Round(M, E) ==
  IF M = 0 THEN Zero
  ELSE LET a == Abs(M)
           k == BitLen(a) - MantissaBits
       IN IF k <= 0
          THEN <<Sign(M) * a * 2^(0 - k), E + k>>
          ELSE LET q  == a \div 2^k
                   r  == a % 2^k
                   h  == 2^(k - 1)
                   m  == IF r > h \/ (r = h /\ q % 2 = 1) THEN q + 1 ELSE q
               IN IF m = 2^MantissaBits
                  THEN <<Sign(M) * 2^(MantissaBits - 1), E + k + 1>>
                  ELSE <<Sign(M) * m, E + k>>

\* float(n) of a Python int, and an integer-valued float literal
F(n) == Round(n, 0)

FNeg(a) == <<0 - a[1], a[2]>>

\* a * b
FMul(a, b) == Round(a[1] * b[1], a[2] + b[2])

\* a / b for b # 0: the quotient is taken with one guard bit and a sticky bit
FDiv(a, b) ==
  IF a[1] = 0 THEN Zero
  ELSE LET n == Abs(a[1]) * 2^(MantissaBits + 1)
           d == Abs(b[1])
           Q == n \div d
           s == IF n % d = 0 THEN 0 ELSE 1
       IN Round(Sign(a[1]) * Sign(b[1]) * (2 * Q + s),
                a[2] - b[2] - MantissaBits - 2)

\* a + b
FAdd(a, b) ==
  IF a[1] = 0 THEN b
  ELSE IF b[1] = 0 THEN a
  ELSE LET hi == IF a[2] >= b[2] THEN a ELSE b
           lo == IF a[2] >= b[2] THEN b ELSE a
           d  == hi[2] - lo[2]
       IN IF d > MantissaBits + 1 THEN hi
          ELSE Round(hi[1] * 2^d + lo[1], lo[2])

\* a - b
FSub(a, b) == FAdd(a, FNeg(b))

\* a < b
FLt(a, b) ==
  IF a[1] < 0 /\ b[1] >= 0 THEN TRUE
  ELSE IF a[1] >= 0 /\ b[1] <= 0 THEN FALSE
  ELSE IF a[1] = 0 THEN TRUE
  ELSE IF a[1] > 0
       THEN a[2] < b[2] \/ (a[2] = b[2] /\ a[1] < b[1])
       ELSE a[2] > b[2] \/ (a[2] = b[2] /\ a[1] < b[1])

\* Python min(a, b) and max(a, b)
FMin(a, b) == IF FLt(b, a) THEN b ELSE a

FMax(a, b) == IF FLt(a, b) THEN b ELSE a

\* the float a decimal literal n/d denotes (n and d below 2^MantissaBits)
Dec(n, d) == FDiv(F(n), F(d))

One == F(1)

\* Python None
None == <<>>

---------------------------------------------------------------------------
(* class Inputs: the fields and their defaults *)

Inputs ==
  [ E_bill_month_kwh    |-> None,
    N_day               |-> 0,
    N_night             |-> 0,
    growth_pct          |-> Zero,
    W_month_liters      |-> Zero,
    head_m              |-> None,
    pump_eff            |-> Dec(55, 100),
    P_pump_kw           |-> Dec(75, 100),
    S_water             |-> 7,
    beta_water          |-> Dec(3, 10),
    outage_duration     |-> "30-60m",
    outage_time         |-> "Afternoon",
    T_water_extra_h_max |-> One,
    essentials_listed   |-> FALSE,
    PSH                 |-> Dec(45, 10),
    PR_base             |-> Dec(78, 100),
    shading_pct         |-> Zero,
    dust_level          |-> "Low",
    severe_event        |-> "None",
    severe_freq         |-> "Seasonal",
    S_elec              |-> 7,
    A_roof_m2           |-> F(120),
    A_ground_m2         |-> Zero,
    PD_kwp_per_m2       |-> Dec(19, 100),
    DC_AC               |-> Dec(12, 10),
    DoD                 |-> Dec(8, 10),
    eta_sys             |-> Dec(9, 10),
    grid_yes            |-> TRUE,
    EF_grid             |-> Dec(6, 10),
    EF_diesel           |-> Dec(8, 10),
    p_CO2               |-> F(6),
    growth_cap          |-> F(2) ]

---------------------------------------------------------------------------
(* The outcome of a call: a returned value or a raised exception *)

Return(v) == [exc |-> "none", val |-> v]

Raise(e) == [exc |-> e, val |-> Zero]

---------------------------------------------------------------------------
(* The estimators *)

\* mutant: the bill is used whenever it is not None, positive or not
daily_site_energy_kwh_any_bill(x) ==
  IF x.E_bill_month_kwh # None
  THEN FDiv(x.E_bill_month_kwh, F(30))
  ELSE FAdd(FMul(Dec(28, 10), F(x.N_day)), FMul(Dec(14, 10), F(x.N_night)))

daily_site_energy_kwh(x) ==
  IF x.E_bill_month_kwh # None /\ x.E_bill_month_kwh # Zero
     /\ FLt(Zero, x.E_bill_month_kwh)
  THEN FDiv(x.E_bill_month_kwh, F(30))
  ELSE FAdd(FMul(Dec(28, 10), F(x.N_day)), FMul(Dec(14, 10), F(x.N_night)))

\* mutant: the proxy mode multiplies the litres per day, not the cubic metres
pump_energy_kwh_day_per_litre(x) ==
  IF x.head_m # None
  THEN LET m3_per_day  == FDiv(FDiv(x.W_month_liters, F(30)), F(1000))
           J_per_day   == FMul(FMul(FMul(F(1000), Dec(981, 100)), x.head_m),
                               m3_per_day)
           denom       == FMul(x.pump_eff, F(3600000))
       IN IF denom = Zero
          THEN Raise("ZeroDivisionError")
          ELSE Return(FMax(FDiv(J_per_day, denom), Zero))
  ELSE Return(FMul(FDiv(x.W_month_liters, F(30)), Dec(45, 100)))

pump_energy_kwh_day(x) ==
  IF x.head_m # None
  THEN LET rho         == F(1000)
           g           == Dec(981, 100)
           m3_per_day  == FDiv(FDiv(x.W_month_liters, F(30)), F(1000))
           J_per_day   == FMul(FMul(FMul(rho, g), x.head_m), m3_per_day)
           denom       == FMul(x.pump_eff, F(3600000))
           kWh_per_day == FDiv(J_per_day, denom)
       IN IF denom = Zero
          THEN Raise("ZeroDivisionError")
          ELSE Return(FMax(kWh_per_day, Zero))
  ELSE LET e_spec == Dec(45, 100)
       IN Return(FMul(FDiv(x.W_month_liters, F(30000)), e_spec))

water_priority_factor(x) ==
  FAdd(One, FMul(x.beta_water, FMax(Zero, FDiv(F(x.S_water - 7), F(3)))))

\* mutant: max in place of min
growth_multiplier_max(x) ==
  FMax(FAdd(One, FDiv(x.growth_pct, F(100))), x.growth_cap)

growth_multiplier(x) ==
  LET G == FAdd(One, FDiv(x.growth_pct, F(100)))
  IN FMin(G, x.growth_cap)

critical_fraction(x) ==
  LET base == FAdd(Dec(30, 100),
                   IF x.essentials_listed THEN Dec(5, 100) ELSE Zero)
  IN FMin(FMax(base, Dec(20, 100)), Dec(40, 100))

\* mutant: the product of base hours and time factor is not floored
autonomy_hours_unfloored(x) ==
  LET T_base == CASE x.outage_duration = "<30m"   -> Dec(5, 10)
                  [] x.outage_duration = "30-60m" -> One
                  [] x.outage_duration = "1-2h"   -> F(2)
                  [] x.outage_duration = ">2h"    -> F(3)
                  [] OTHER                        -> One
      kappa  == CASE x.outage_time = "Morning"   -> One
                  [] x.outage_time = "Afternoon" -> Dec(12, 10)
                  [] x.outage_time = "Evening"   -> Dec(15, 10)
                  [] OTHER                       -> One
  IN FAdd(FMul(T_base, kappa),
          FMul(x.T_water_extra_h_max,
               FMax(Zero, FDiv(F(x.S_water - 7), F(2)))))

autonomy_hours(x) ==
  LET T_base == CASE x.outage_duration = "<30m"   -> Dec(5, 10)
                  [] x.outage_duration = "30-60m" -> One
                  [] x.outage_duration = "1-2h"   -> F(2)
                  [] x.outage_duration = ">2h"    -> F(3)
                  [] OTHER                        -> One
      kappa  == CASE x.outage_time = "Morning"   -> One
                  [] x.outage_time = "Afternoon" -> Dec(12, 10)
                  [] x.outage_time = "Evening"   -> Dec(15, 10)
                  [] OTHER                       -> One
      T      == FMax(F(2), FMul(T_base, kappa))
      bump   == FMul(x.T_water_extra_h_max,
                     FMax(Zero, FDiv(F(x.S_water - 7), F(2))))
  IN FAdd(T, bump)

performance_ratio_eff(x) ==
  FMul(x.PR_base, FSub(One, FDiv(x.shading_pct, F(100))))

\* mutant: an unknown dust level falls back to the Medium margin
dust_margin_unknown_medium(x) ==
  CASE x.dust_level = "Low"    -> Zero
    [] x.dust_level = "Medium" -> Dec(5, 100)
    [] x.dust_level = "Heavy"  -> Dec(10, 100)
    [] OTHER                   -> Dec(5, 100)

dust_margin(x) ==
  CASE x.dust_level = "Low"    -> Zero
    [] x.dust_level = "Medium" -> Dec(5, 100)
    [] x.dust_level = "Heavy"  -> Dec(10, 100)
    [] OTHER                   -> Zero

severe_margin(x) ==
  IF x.severe_event = "None"
  THEN Zero
  ELSE LET base == Dec(3, 100)
           freq == CASE x.severe_freq = "Rare"     -> Dec(5, 10)
                     [] x.severe_freq = "Seasonal" -> One
                     [] x.severe_freq = "Often"    -> Dec(15, 10)
                     [] OTHER                      -> One
       IN FMul(base, freq)

priority_margins(x) ==
  LET m0 == Zero
      m1 == IF x.S_elec >= 8 THEN FAdd(m0, Dec(2, 100)) ELSE m0
      m2 == IF x.S_water >= 8 THEN FAdd(m1, Dec(2, 100)) ELSE m1
  IN m2

\* mutant: the priority margins are left out of the sum
total_margin_no_priority(x) ==
  FMin(FAdd(dust_margin(x), severe_margin(x)), Dec(20, 100))

total_margin(x) ==
  LET M == FAdd(FAdd(dust_margin(x), severe_margin(x)), priority_margins(x))
  IN FMin(M, Dec(20, 100))

---------------------------------------------------------------------------
(* The orchestrator plan.  Each section of its body is an operator that   *)
(* takes the values computed before it; plan chains them in source order.  *)

\* Demand: E_site, E_pump, G, E_daily
plan_demand(x, pump) ==
  LET E_site == daily_site_energy_kwh(x)
      E_pump == FMul(pump, water_priority_factor(x))
      G      == growth_multiplier(x)
  IN [ E_site |-> E_site, E_pump |-> E_pump, G |-> G,
       E_daily |-> FMul(FAdd(E_site, E_pump), G) ]

\* Critical and autonomy: fcrit, E_crit, T_aut, E_aut, E_need, E_bat
plan_battery(x, E_daily) ==
  LET fcrit   == critical_fraction(x)
      E_crit  == FMul(fcrit, E_daily)
      T_aut   == autonomy_hours(x)
      E_aut   == FMul(E_daily, FDiv(T_aut, F(24)))
      E_need  == FMax(E_crit, E_aut)
      bat_den == FMul(x.DoD, x.eta_sys)
  IN IF bat_den = Zero
     THEN Raise("ZeroDivisionError")
     ELSE Return([ fcrit |-> fcrit, E_crit |-> E_crit, T_aut |-> T_aut,
                   E_aut |-> E_aut, E_need |-> E_need,
                   E_bat |-> FDiv(E_need, bat_den) ])

\* mutant: the area cap is not applied
kWp_of_uncapped(kWp_raw, kWp_cap) == kWp_raw

\* kWp = min(kWp_raw, kWp_cap)
kWp_of(kWp_raw, kWp_cap) == FMin(kWp_raw, kWp_cap)

\* PV size: PR_eff, kWp_raw, kWp_cap, kWp, P_inv
plan_pv(x, E_daily) ==
  LET PR_eff  == performance_ratio_eff(x)
      pv_den  == FMul(x.PSH, PR_eff)
      kWp_raw == FMul(FDiv(E_daily, pv_den), FAdd(One, total_margin(x)))
      kWp_cap == FMul(FAdd(x.A_roof_m2, x.A_ground_m2), x.PD_kwp_per_m2)
      kWp     == kWp_of(kWp_raw, kWp_cap)
  IN IF pv_den = Zero \/ x.DC_AC = Zero
     THEN Raise("ZeroDivisionError")
     ELSE Return([ PR_eff |-> PR_eff, kWp_raw |-> kWp_raw,
                   kWp_cap |-> kWp_cap, kWp |-> kWp,
                   P_inv |-> FDiv(kWp, x.DC_AC) ])

\* mutant: max in place of min, surplus generation is credited
E_matched_of_max(E_pv_yr, E_load_yr) == FMax(E_pv_yr, E_load_yr)

\* E_matched = min(E_pv_yr, E_load_yr)
E_matched_of(E_pv_yr, E_load_yr) == FMin(E_pv_yr, E_load_yr)

\* tCO2_yr, credits_yr and value_carbon_yr from the matched energy
plan_carbon(x, E_pv_yr, E_load_yr, E_matched) ==
  LET EF      == IF x.grid_yes THEN x.EF_grid ELSE x.EF_diesel
      tCO2_yr == FDiv(FMul(E_matched, EF), F(1000))
      credits_yr == tCO2_yr
  IN [ E_pv_yr |-> E_pv_yr, E_load_yr |-> E_load_yr,
       E_matched |-> E_matched, tCO2_yr |-> tCO2_yr,
       credits_yr |-> credits_yr,
       value_carbon_yr |-> FMul(credits_yr, x.p_CO2) ]

\* mutant: the annual generation leaves out the performance ratio
plan_annual_no_pr(x, E_daily, kWp, PR_eff) ==
  LET E_pv_yr   == FMul(FMul(kWp, x.PSH), F(365))
      E_load_yr == FMul(E_daily, F(365))
  IN plan_carbon(x, E_pv_yr, E_load_yr, E_matched_of(E_pv_yr, E_load_yr))

\* Annuals & carbon: E_pv_yr, E_load_yr, E_matched, then the carbon figures
plan_annual(x, E_daily, kWp, PR_eff) ==
  LET E_pv_yr   == FMul(FMul(FMul(kWp, x.PSH), PR_eff), F(365))
      E_load_yr == FMul(E_daily, F(365))
  IN plan_carbon(x, E_pv_yr, E_load_yr, E_matched_of(E_pv_yr, E_load_yr))

\* Convenience hints: h_pump = max(0.5, E_pump / max(P_pump_kw, 0.1))
h_pump_of(E_pump, P_pump_kw) ==
  FMax(Dec(5, 10), FDiv(E_pump, FMax(P_pump_kw, Dec(1, 10))))

\* the returned dict
plan_result(d, b, p, a, h_pump) ==
  [ E_site |-> d.E_site, E_pump |-> d.E_pump, G |-> d.G,
    E_daily |-> d.E_daily,
    fcrit |-> b.fcrit, T_aut |-> b.T_aut, E_crit |-> b.E_crit,
    E_aut |-> b.E_aut, E_need |-> b.E_need, E_bat |-> b.E_bat,
    PR_eff |-> p.PR_eff, kWp_raw |-> p.kWp_raw, kWp_cap |-> p.kWp_cap,
    kWp |-> p.kWp, P_inv |-> p.P_inv,
    E_pv_yr |-> a.E_pv_yr, E_load_yr |-> a.E_load_yr,
    E_matched |-> a.E_matched, tCO2_yr |-> a.tCO2_yr,
    credits_yr |-> a.credits_yr, value_carbon_yr |-> a.value_carbon_yr,
    h_pump |-> h_pump ]

\* plan after its sizing sections: an exception of either ends the call
plan_sized(x, d, b, p) ==
  IF b.exc # "none" THEN Raise(b.exc)
  ELSE IF p.exc # "none" THEN Raise(p.exc)
  ELSE Return(plan_result(d, b.val, p.val,
                          plan_annual(x, d.E_daily, p.val.kWp, p.val.PR_eff),
                          h_pump_of(d.E_pump, x.P_pump_kw)))

\* plan after its demand section
plan_after_demand(x, d) ==
  plan_sized(x, d, plan_battery(x, d.E_daily), plan_pv(x, d.E_daily))

plan(x) ==
  LET pump == pump_energy_kwh_day(x)
  IN IF pump.exc # "none"
     THEN Raise(pump.exc)
     ELSE plan_after_demand(x, plan_demand(x, pump.val))

---------------------------------------------------------------------------
(* The Inputs the calls are made on: each set varies the fields of one     *)
(* group around the defaults, as a keyword-argument construction does     *)

\* a site with residents, so that the demand is not zero
Occupied == [Inputs EXCEPT !.N_day = 5, !.N_night = 3]

DemandInputs ==
  { [Inputs EXCEPT !.E_bill_month_kwh = b, !.N_day = d, !.N_night = n,
                   !.A_roof_m2 = a] :
      b \in {None, Zero, F(-300), F(300)},
      d \in 0..MaxResidents, n \in 0..MaxResidents,
      a \in {F(10), F(120)} }

GrowthInputs ==
  { [Inputs EXCEPT !.growth_pct = g, !.growth_cap = c, !.N_day = d,
                   !.W_month_liters = w] :
      g \in {F(25 * k) : k \in 0..MaxGrowthSteps} \cup {F(-50)},
      c \in {F(2), Dec(15, 10), One, Dec(5, 10)},
      d \in {0, 5},
      w \in {Zero, F(30000), F(-30000)} }

WaterInputs ==
  { [Inputs EXCEPT !.W_month_liters = w, !.head_m = h, !.pump_eff = e,
                   !.P_pump_kw = p, !.S_water = s] :
      w \in {F(15000 * k) : k \in 0..MaxWaterSteps} \cup {F(-15000)},
      h \in {None, Zero, F(20)},
      e \in {Zero, Dec(5, 10), Dec(55, 100)},
      p \in {Zero, Dec(5, 100), Dec(75, 100)},
      s \in {7, 10} }

AutonomyInputs ==
  { [Occupied EXCEPT !.outage_duration = d, !.outage_time = t,
                     !.S_water = s, !.T_water_extra_h_max = m] :
      d \in {"<30m", "30-60m", "1-2h", ">2h", "3h"},
      t \in {"Morning", "Afternoon", "Evening", "Night"},
      s \in {1, 7, 8, 9, 10},
      m \in {F(-1), Zero, One, F(2)} }

MarginInputs ==
  { [Occupied EXCEPT !.dust_level = d, !.severe_event = v, !.severe_freq = f,
                     !.S_elec = se, !.S_water = sw, !.A_roof_m2 = a] :
      d \in {"Low", "Medium", "Heavy", "Extreme"},
      v \in {"None", "Storm", "HeavyRain", "Flood"},
      f \in {"Rare", "Seasonal", "Often", "Daily"},
      se \in {7, 8}, sw \in {7, 8},
      a \in {F(10), F(120)} }

SiteInputs ==
  { [Occupied EXCEPT !.A_roof_m2 = a, !.A_ground_m2 = gr, !.DC_AC = r,
                     !.PSH = p, !.shading_pct = sh, !.grid_yes = gy,
                     !.dust_level = du, !.DoD = dod] :
      a \in {Zero, F(10), F(120)},
      gr \in {Zero, F(10)},
      r \in {Zero, One, Dec(12, 10)},
      p \in {Zero, Dec(45, 10), F(5)},
      sh \in {Zero, F(20), F(100)},
      gy \in BOOLEAN,
      du \in {"Low", "Heavy"},
      dod \in {Zero, Dec(8, 10)} }

InputsSet ==
  DemandInputs \cup GrowthInputs \cup WaterInputs \cup AutonomyInputs
    \cup MarginInputs \cup SiteInputs

---------------------------------------------------------------------------
(* The state machine: an Inputs is constructed once and never mutated;     *)
(* each action is one call of a function of core.py on it                  *)

NoCall == [fn |-> "none", exc |-> "none", val |-> Zero]

Called(f, r) == [fn |-> f, exc |-> r.exc, val |-> r.val]

Init == i \in InputsSet /\ ret = NoCall

call_daily_site_energy_kwh ==
  /\ ret' = Called("daily_site_energy_kwh", Return(daily_site_energy_kwh(i)))
  /\ UNCHANGED i

call_pump_energy_kwh_day ==
  /\ ret' = Called("pump_energy_kwh_day", pump_energy_kwh_day(i))
  /\ UNCHANGED i

call_water_priority_factor ==
  /\ ret' = Called("water_priority_factor", Return(water_priority_factor(i)))
  /\ UNCHANGED i

call_growth_multiplier ==
  /\ ret' = Called("growth_multiplier", Return(growth_multiplier(i)))
  /\ UNCHANGED i

call_critical_fraction ==
  /\ ret' = Called("critical_fraction", Return(critical_fraction(i)))
  /\ UNCHANGED i

call_autonomy_hours ==
  /\ ret' = Called("autonomy_hours", Return(autonomy_hours(i)))
  /\ UNCHANGED i

call_performance_ratio_eff ==
  /\ ret' = Called("performance_ratio_eff", Return(performance_ratio_eff(i)))
  /\ UNCHANGED i

call_dust_margin ==
  /\ ret' = Called("dust_margin", Return(dust_margin(i)))
  /\ UNCHANGED i

call_severe_margin ==
  /\ ret' = Called("severe_margin", Return(severe_margin(i)))
  /\ UNCHANGED i

call_priority_margins ==
  /\ ret' = Called("priority_margins", Return(priority_margins(i)))
  /\ UNCHANGED i

call_total_margin ==
  /\ ret' = Called("total_margin", Return(total_margin(i)))
  /\ UNCHANGED i

call_plan ==
  /\ ret' = Called("plan", plan(i))
  /\ UNCHANGED i

Next ==
  \/ call_daily_site_energy_kwh
  \/ call_pump_energy_kwh_day
  \/ call_water_priority_factor
  \/ call_growth_multiplier
  \/ call_critical_fraction
  \/ call_autonomy_hours
  \/ call_performance_ratio_eff
  \/ call_dust_margin
  \/ call_severe_margin
  \/ call_priority_margins
  \/ call_total_margin
  \/ call_plan

Spec == Init /\ [][Next]_vars

---------------------------------------------------------------------------
(* Vocabulary of the properties *)

\* the last call was f and it returned a value
Returned(f) == ret.fn = f /\ ret.exc = "none"

\* the keys of the lookup tables, and the severe events the planner offers
OutageDurations == {"<30m", "30-60m", "1-2h", ">2h"}

OutageTimes == {"Morning", "Afternoon", "Evening"}

DustLevels == {"Low", "Medium", "Heavy"}

SevereFreqs == {"Rare", "Seasonal", "Often"}

SevereEvents == {"None", "Storm", "DustStorm", "HeavyRain"}

\* a <= b
FLe(a, b) == ~FLt(b, a)

\* |a - b| is at most k units in the last place of b (computed exactly)
WithinUlps(a, b, k) ==
  IF a[1] = 0 \/ b[1] = 0 THEN a = b
  ELSE IF Abs(a[2] - b[2]) > 4 THEN FALSE
  ELSE LET e0 == IF a[2] < b[2] THEN a[2] ELSE b[2]
       IN Abs(a[1] * 2^(a[2] - e0) - b[1] * 2^(b[2] - e0)) <= k * 2^(b[2] - e0)

\* a >= b, or a is below b by at most k units in the last place of b
AtLeastUpTo(a, b, k) == FLe(b, a) \/ WithinUlps(a, b, k)

---------------------------------------------------------------------------
(* C1 *)

\* C1: whenever plan returns, kWp = min(kWp_raw, kWp_cap) with
\* kWp_cap = (A_roof_m2 + A_ground_m2) * PD_kwp_per_m2, so kWp <= kWp_cap;
\* and when kWp_raw > kWp_cap, kWp is exactly kWp_cap and
\* P_inv = kWp_cap / DC_AC.
C1_AreaCap ==
  Returned("plan") =>
    LET r   == ret.val
        cap == FMul(FAdd(i.A_roof_m2, i.A_ground_m2), i.PD_kwp_per_m2)
    IN /\ r.kWp_cap = cap
       /\ r.kWp = FMin(r.kWp_raw, cap)
       /\ FLe(r.kWp, cap)
       /\ FLt(cap, r.kWp_raw) => r.kWp = cap /\ r.P_inv = FDiv(cap, i.DC_AC)

\* Scenario D: a 10 m2 roof caps the array at 1.9 kWp below the demand
C1_Witness ==
  /\ Returned("plan")
  /\ i.A_roof_m2 = F(10) /\ i.A_ground_m2 = Zero
  /\ ret.val.kWp_cap = FMul(F(10), Dec(19, 100))
  /\ FLt(ret.val.kWp_cap, ret.val.kWp_raw)
  /\ ret.val.kWp = ret.val.kWp_cap

---------------------------------------------------------------------------
(* C2 *)

\* C2: no pump denominator reaches zero: for every Inputs pump_energy
\* returns a value, and plan returns one whenever its other denominators
\* (DoD * eta_sys, PSH * PR_eff, DC_AC) are non-zero.
C2_PumpDenominatorsFloored ==
  /\ ret.fn = "pump_energy_kwh_day" => ret.exc = "none"
  /\ ( /\ ret.fn = "plan"
       /\ FMul(i.DoD, i.eta_sys) # Zero
       /\ FMul(i.PSH, performance_ratio_eff(i)) # Zero
       /\ i.DC_AC # Zero )
     => ret.exc = "none"

---------------------------------------------------------------------------
(* C3 *)

\* C3 as stated: in proxy mode (head_m is None) pump_energy returns
\* (W_month_liters / 30) * 0.45, for every W_month_liters >= 0.
C3_ProxyPerLitre ==
  Returned("pump_energy_kwh_day") /\ i.head_m = None
    /\ FLe(Zero, i.W_month_liters)
  => ret.val = FMul(FDiv(i.W_month_liters, F(30)), Dec(45, 100))

\* C3: in proxy mode (head_m is None) pump_energy returns the daily volume
\* in cubic metres times 0.45: (W_month_liters / 30000) * 0.45, for every
\* W_month_liters >= 0.
C3_ProxyPerCubicMetre ==
  Returned("pump_energy_kwh_day") /\ i.head_m = None
    /\ FLe(Zero, i.W_month_liters)
  => ret.val = FMul(FDiv(i.W_month_liters, F(30000)), Dec(45, 100))

\* 30000 L a month is 1 m3 a day: 0.45 kWh/day
C3_Witness ==
  /\ Returned("pump_energy_kwh_day")
  /\ i.head_m = None /\ i.W_month_liters = F(30000)
  /\ ret.val = Dec(45, 100)

---------------------------------------------------------------------------
(* C4 *)

\* C4 as stated: for all Inputs, whatever T_water_extra_h_max is,
\* autonomy_hours returns at least 2.0.
C4_AutonomyAtLeastTwo ==
  Returned("autonomy_hours") => FLe(F(2), ret.val)

\* C4: for all Inputs with T_water_extra_h_max >= 0 (any outage strings,
\* any S_water), autonomy_hours returns at least 2.0: the water-priority
\* bump is then non-negative and is added to a product floored at 2.0.
C4_AutonomyAtLeastTwoNonNegativeBump ==
  Returned("autonomy_hours") /\ FLe(Zero, i.T_water_extra_h_max)
  => FLe(F(2), ret.val)

\* a short morning outage is floored at 2.0 and the bump of S_water = 9
\* adds one hour
C4_Witness ==
  /\ Returned("autonomy_hours")
  /\ i.outage_duration = "<30m" /\ i.outage_time = "Morning"
  /\ i.S_water = 9 /\ i.T_water_extra_h_max = One
  /\ ret.val = F(3)

---------------------------------------------------------------------------
(* C5 *)

\* what C5 says of every enum field but severe_event: a value outside the
\* table never fails and acts as the neutral entry (factor 1.0 for
\* outage_duration, outage_time and severe_freq, zero margin for dust_level)
C5_NeutralFallbacks ==
  /\ ret.fn \in {"autonomy_hours", "dust_margin", "severe_margin"}
     => ret.exc = "none"
  /\ Returned("autonomy_hours") /\ i.outage_duration \notin OutageDurations
     => ret.val = autonomy_hours([i EXCEPT !.outage_duration = "30-60m"])
  /\ Returned("autonomy_hours") /\ i.outage_time \notin OutageTimes
     => ret.val = autonomy_hours([i EXCEPT !.outage_time = "Morning"])
  /\ Returned("dust_margin") /\ i.dust_level \notin DustLevels
     => ret.val = Zero
  /\ Returned("severe_margin") /\ i.severe_event # "None"
       /\ i.severe_freq \notin SevereFreqs
     => ret.val = FMul(Dec(3, 100), One)

\* C5 as stated: every unknown enum value is neutral, and an unrecognised
\* severe_event string yields severe_margin = 0.
C5_UnknownEnumsNeutral ==
  /\ C5_NeutralFallbacks
  /\ Returned("severe_margin") /\ i.severe_event \notin SevereEvents
     => ret.val = Zero

\* C5: unknown outage_duration, outage_time and severe_freq values act as
\* factor 1.0 and an unknown dust_level as zero margin, without failing;
\* an unrecognised severe_event is not neutral: like every value other than
\* "None" it yields 0.03 times the frequency factor.
C5_UnknownEnumsNeutralButEvent ==
  /\ C5_NeutralFallbacks
  /\ Returned("severe_margin") /\ i.severe_event \notin SevereEvents
     => /\ ret.val = severe_margin([i EXCEPT !.severe_event = "Storm"])
        /\ ret.val # Zero

\* an unknown event with an unknown frequency: 0.03 * 1.0
C5_Witness ==
  /\ Returned("severe_margin")
  /\ i.severe_event = "Flood" /\ i.severe_freq = "Daily"
  /\ ret.val = Dec(3, 100)

---------------------------------------------------------------------------
(* C6 *)

\* 1 + growth_pct / 100
C6_Uncapped == FAdd(One, FDiv(i.growth_pct, F(100)))

\* C6 as stated: for every growth_pct >= 0 and every growth_cap,
\* 1.0 <= G <= growth_cap, G = 1 + growth_pct/100 whenever that is
\* <= growth_cap, and E_daily >= E_site + E_pump in plan.
C6_GrowthNeverReduces ==
  /\ Returned("growth_multiplier") /\ FLe(Zero, i.growth_pct)
     => /\ FLe(One, ret.val)
        /\ FLe(ret.val, i.growth_cap)
        /\ FLe(C6_Uncapped, i.growth_cap) => ret.val = C6_Uncapped
  /\ Returned("plan") /\ FLe(Zero, i.growth_pct)
     => FLe(FAdd(ret.val.E_site, ret.val.E_pump), ret.val.E_daily)

\* C6: for every growth_pct >= 0 and every growth_cap, G <= growth_cap and
\* G = 1 + growth_pct/100 whenever that is <= growth_cap; G >= 1.0 when
\* growth_cap >= 1.0; and in plan E_daily >= E_site + E_pump when
\* growth_cap >= 1.0 and E_site + E_pump >= 0.
C6_GrowthNeverReducesUnderCapAtLeastOne ==
  /\ Returned("growth_multiplier") /\ FLe(Zero, i.growth_pct)
     => /\ FLe(One, i.growth_cap) => FLe(One, ret.val)
        /\ FLe(ret.val, i.growth_cap)
        /\ FLe(C6_Uncapped, i.growth_cap) => ret.val = C6_Uncapped
  /\ ( /\ Returned("plan") /\ FLe(Zero, i.growth_pct)
       /\ FLe(One, i.growth_cap)
       /\ FLe(Zero, FAdd(ret.val.E_site, ret.val.E_pump)) )
     => FLe(FAdd(ret.val.E_site, ret.val.E_pump), ret.val.E_daily)

\* 50 % growth under the default cap raises a positive demand by half
C6_Witness ==
  /\ Returned("plan")
  /\ i.growth_pct = F(50) /\ i.growth_cap = F(2)
  /\ ret.val.G = Dec(15, 10)
  /\ FLt(Zero, FAdd(ret.val.E_site, ret.val.E_pump))
  /\ FLt(FAdd(ret.val.E_site, ret.val.E_pump), ret.val.E_daily)

---------------------------------------------------------------------------
(* C7 *)

\* C7: whenever plan returns, E_matched = min(E_pv_yr, E_load_yr), so it
\* exceeds neither; tCO2_yr = E_matched * EF / 1000 with EF = EF_grid when
\* grid_yes and EF_diesel otherwise; credits_yr = tCO2_yr; and
\* value_carbon_yr = credits_yr * p_CO2.
C7_CarbonOnMatchedEnergy ==
  Returned("plan") =>
    LET r  == ret.val
        EF == IF i.grid_yes THEN i.EF_grid ELSE i.EF_diesel
    IN /\ r.E_matched = FMin(r.E_pv_yr, r.E_load_yr)
       /\ FLe(r.E_matched, r.E_pv_yr)
       /\ FLe(r.E_matched, r.E_load_yr)
       /\ r.tCO2_yr = FDiv(FMul(r.E_matched, EF), F(1000))
       /\ r.credits_yr = r.tCO2_yr
       /\ r.value_carbon_yr = FMul(r.credits_yr, i.p_CO2)

\* a diesel site whose generation exceeds its load: only the load is credited
C7_Witness ==
  /\ Returned("plan")
  /\ ~i.grid_yes
  /\ FLt(ret.val.E_load_yr, ret.val.E_pv_yr)
  /\ ret.val.E_matched = ret.val.E_load_yr
  /\ ret.val.tCO2_yr = FDiv(FMul(ret.val.E_load_yr, Dec(8, 10)), F(1000))
  /\ FLt(Zero, ret.val.value_carbon_yr)

---------------------------------------------------------------------------
(* C8 *)

\* the rule of C8: the bill / 30 when the bill is supplied and positive,
\* whatever N_day and N_night are; 2.8 * N_day + 1.4 * N_night when the
\* bill is None, zero or negative
C8_Rule ==
  Returned("daily_site_energy_kwh") =>
    IF i.E_bill_month_kwh # None /\ FLt(Zero, i.E_bill_month_kwh)
    THEN ret.val = FDiv(i.E_bill_month_kwh, F(30))
    ELSE ret.val = FAdd(FMul(Dec(28, 10), F(i.N_day)),
                        FMul(Dec(14, 10), F(i.N_night)))

\* C8 as stated: the rule, with the examples bill None, N_day = 4,
\* N_night = 2 gives 13.2 and bill 300, N_day = 10 gives 10.0.
C8_MeteredWinsExample132 ==
  /\ C8_Rule
  /\ Returned("daily_site_energy_kwh") /\ i.E_bill_month_kwh = None
       /\ i.N_day = 4 /\ i.N_night = 2
     => ret.val = Dec(132, 10)
  /\ Returned("daily_site_energy_kwh") /\ i.E_bill_month_kwh = F(300)
       /\ i.N_day = 10
     => ret.val = F(10)

\* C8: daily_site_energy returns the bill / 30 whenever the bill is
\* supplied and positive, regardless of N_day and N_night, and
\* 2.8 * N_day + 1.4 * N_night when the bill is None, zero or negative;
\* bill None, N_day = 4, N_night = 2 gives 14.0 and bill 300, N_day = 10
\* gives 10.0.
C8_MeteredWinsExample140 ==
  /\ C8_Rule
  /\ Returned("daily_site_energy_kwh") /\ i.E_bill_month_kwh = None
       /\ i.N_day = 4 /\ i.N_night = 2
     => ret.val = F(14)
  /\ Returned("daily_site_energy_kwh") /\ i.E_bill_month_kwh = F(300)
       /\ i.N_day = 10
     => ret.val = F(10)

\* Scenario B: the bill wins over ten residents
C8_Witness ==
  /\ Returned("daily_site_energy_kwh")
  /\ i.E_bill_month_kwh = F(300) /\ i.N_day = 10 /\ i.N_night = 2
  /\ ret.val = F(10)

---------------------------------------------------------------------------
(* C9 *)

\* C9: for all Inputs, unknown strings included, total_margin is the sum
\* dust_margin + severe_margin + priority_margins capped at 0.20, and is
\* therefore at most 0.20.
C9_TotalMarginCapped ==
  Returned("total_margin") =>
    /\ ret.val = FMin(FAdd(FAdd(dust_margin(i), severe_margin(i)),
                           priority_margins(i)),
                      Dec(20, 100))
    /\ FLe(ret.val, Dec(20, 100))

\* the largest margins of the tables: 0.10 + 0.045 + 0.04
C9_Witness ==
  /\ Returned("total_margin")
  /\ i.dust_level = "Heavy" /\ i.severe_event = "Storm"
  /\ i.severe_freq = "Often" /\ i.S_elec = 8 /\ i.S_water = 8
  /\ ret.val = FAdd(FAdd(Dec(10, 100), FMul(Dec(3, 100), Dec(15, 10))),
                    FAdd(Dec(2, 100), Dec(2, 100)))
  /\ FLt(Dec(18, 100), ret.val)

---------------------------------------------------------------------------
(* C10 *)

\* E_daily * (1 + total_margin) * 365
C10_Ideal ==
  FMul(FMul(ret.val.E_daily, FAdd(One, total_margin(i))), F(365))

\* C10 as stated: when plan returns with kWp = kWp_raw and E_daily >= 0,
\* E_pv_yr equals E_daily * (1 + total_margin) * 365 >= E_load_yr and
\* E_matched = E_load_yr; E_matched < E_load_yr only when
\* kWp = kWp_cap < kWp_raw.
C10_WholeLoadCredited ==
  Returned("plan") /\ FLe(Zero, ret.val.E_daily) =>
    LET r == ret.val
    IN /\ r.kWp = r.kWp_raw
          => /\ r.E_pv_yr = C10_Ideal
             /\ FLe(r.E_load_yr, r.E_pv_yr)
             /\ r.E_matched = r.E_load_yr
       /\ FLt(r.E_matched, r.E_load_yr)
          => r.kWp = r.kWp_cap /\ FLt(r.kWp_cap, r.kWp_raw)

\* C10: when plan returns with kWp = kWp_raw and E_daily >= 0, E_pv_yr
\* equals E_daily * (1 + total_margin) * 365 up to floating-point rounding
\* (16 units in the last place), it is not below E_load_yr by more than
\* that, and E_matched equals E_load_yr up to that rounding; E_matched is
\* below E_load_yr by more than rounding only when kWp = kWp_cap < kWp_raw.
C10_WholeLoadCreditedUpToRounding ==
  Returned("plan") /\ FLe(Zero, ret.val.E_daily) =>
    LET r == ret.val
    IN /\ r.kWp = r.kWp_raw
          => /\ WithinUlps(r.E_pv_yr, C10_Ideal, 16)
             /\ AtLeastUpTo(r.E_pv_yr, r.E_load_yr, 16)
             /\ WithinUlps(r.E_matched, r.E_load_yr, 16)
       /\ ~WithinUlps(r.E_matched, r.E_load_yr, 16)
          => r.kWp = r.kWp_cap /\ FLt(r.kWp_cap, r.kWp_raw)

\* the cap does not bind, the margin is positive and the whole load is
\* credited
C10_Witness ==
  /\ Returned("plan")
  /\ FLt(Zero, ret.val.E_daily)
  /\ FLt(Zero, total_margin(i))
  /\ ret.val.kWp = ret.val.kWp_raw
  /\ FLt(ret.val.kWp_raw, ret.val.kWp_cap)
  /\ FLt(ret.val.E_load_yr, ret.val.E_pv_yr)
  /\ ret.val.E_matched = ret.val.E_load_yr

=============================================================================
